---- MODULE Spec2Model ----
(***************************************************************************)
(* A model of server.py, the BODMAS calculator MCP server: five arithmetic *)
(* tools, one prompt template and two static resources, registered by     *)
(* name on one FastMCP instance.                                           *)
(*                                                                         *)
(* Python floats are modelled as a binary floating-point format of the     *)
(* IEEE 754 shape (sign, gradual underflow, round to nearest with ties to  *)
(* even, signed zeros, infinities, NaN) at a reduced width: MantBits bits  *)
(* of significand and MaxExp + 1 binades instead of 53 and 2046.           *)
(***************************************************************************)
EXTENDS Integers, Sequences, FiniteSets, TLC

VARIABLES
    request,    \* the call being answered: kind, name and arguments
    response,   \* what the handler returned or raised for `request`
    invoked,    \* the registered function the dispatch ran for `request`
    file,       \* resources/bodmas.jpg in the server's working directory
    stdout,     \* the lines print() has written
    memo,       \* one earlier tool or prompt call and its outcome
    libm        \* which neighbour the platform's pow() returns when inexact

vars == <<request, response, invoked, file, stdout, memo, libm>>

----------------------------------------------------------------------------
(* The float format.                                                       *)

MantBits == 3
MaxExp == 3

Pow2(n) == 2 ^ n

\* Magnitudes are counted in quanta (the smallest subnormal); 1.0 is One quanta.
One == Pow2(MantBits)

MaxMag == (Pow2(MantBits) - 1) * Pow2(MaxExp)

Mags == { m * Pow2(e) : m \in 0 .. (Pow2(MantBits) - 1), e \in 0 .. MaxExp }

Fin(neg, mag) == [cls |-> "fin", neg |-> neg, mag |-> mag]
Inf(neg) == [cls |-> "inf", neg |-> neg, mag |-> 0]
NaN == [cls |-> "nan", neg |-> FALSE, mag |-> 0]

Floats == { Fin(n, m) : n \in BOOLEAN, m \in Mags } \cup { Inf(TRUE), Inf(FALSE), NaN }

IsFinite(x) == x.cls = "fin"
IsZero(x) == x.cls = "fin" /\ x.mag = 0

\* The float of the integer n (exact for the small n used below).
FromInt(n) == Fin(n < 0, (IF n < 0 THEN -n ELSE n) * One)

\* The nearest magnitude to n/d quanta, ties to the even significand;
\* a value past MaxMag's rounding range overflows to infinity.
FRound(neg, n, d) ==
    IF n >= d * Pow2(MantBits + MaxExp) THEN Inf(neg)
    ELSE LET e == CHOOSE k \in 0 .. MaxExp :
                    /\ n < d * Pow2(MantBits + k)
                    /\ (k = 0 \/ n >= d * Pow2(MantBits + k - 1))
             s == d * Pow2(e)
             q == n \div s
             r == n % s
             up == (2 * r > s) \/ (2 * r = s /\ q % 2 = 1)
             m == (IF up THEN q + 1 ELSE q) * Pow2(e)
         IN  IF m > MaxMag THEN Inf(neg) ELSE Fin(neg, m)

FNeg(x) == IF x.cls = "nan" THEN x ELSE [x EXCEPT !.neg = ~x.neg]

Signed(x) == IF x.neg THEN -x.mag ELSE x.mag

\* a + b
FAdd(a, b) ==
    IF a.cls = "nan" \/ b.cls = "nan" THEN NaN
    ELSE IF a.cls = "inf" /\ b.cls = "inf"
         THEN (IF a.neg = b.neg THEN a ELSE NaN)
    ELSE IF a.cls = "inf" THEN a
    ELSE IF b.cls = "inf" THEN b
    ELSE LET sum == Signed(a) + Signed(b)
         IN  IF sum = 0 THEN Fin(a.neg /\ b.neg, 0)
             ELSE FRound(sum < 0, IF sum < 0 THEN -sum ELSE sum, 1)

\* a - b
FSub(a, b) == FAdd(a, FNeg(b))

\* a * b
FMul(a, b) ==
    IF a.cls = "nan" \/ b.cls = "nan" THEN NaN
    ELSE IF (a.cls = "inf" /\ IsZero(b)) \/ (IsZero(a) /\ b.cls = "inf") THEN NaN
    ELSE IF a.cls = "inf" \/ b.cls = "inf" THEN Inf(a.neg # b.neg)
    ELSE FRound(a.neg # b.neg, a.mag * b.mag, One)

\* a / b, for b not zero
FDiv(a, b) ==
    IF a.cls = "nan" \/ b.cls = "nan" THEN NaN
    ELSE IF a.cls = "inf" /\ b.cls = "inf" THEN NaN
    ELSE IF a.cls = "inf" THEN Inf(a.neg # b.neg)
    ELSE IF b.cls = "inf" THEN Fin(a.neg # b.neg, 0)
    ELSE FRound(a.neg # b.neg, a.mag * One, b.mag)

----------------------------------------------------------------------------
(* What a handler hands back: a returned value or a raised exception.      *)

NoFloat == Fin(FALSE, 0)

Returned(type, num, text, bytes) ==
    [status |-> "ok", error |-> "", type |-> type,
     num |-> num, text |-> text, bytes |-> bytes]

ReturnFloat(x) == Returned("float", x, "", <<>>)
ReturnComplex == Returned("complex", NoFloat, "", <<>>)
ReturnStr(s) == Returned("str", NoFloat, s, <<>>)
ReturnBytes(bs) == Returned("bytes", NoFloat, "", bs)

Raise(exc) ==
    [status |-> "error", error |-> exc, type |-> "none",
     num |-> NoFloat, text |-> "", bytes |-> <<>>]

----------------------------------------------------------------------------
(* Python's float operators.  + - * never raise; / raises on a zero        *)
(* divisor; ** has the special cases of CPython's float_pow around the     *)
(* platform's pow().                                                       *)

PyAdd(a, b) == ReturnFloat(FAdd(a, b))
PySub(a, b) == ReturnFloat(FSub(a, b))
PyMul(a, b) == ReturnFloat(FMul(a, b))

PyTrueDiv(a, b) ==
    IF IsZero(b) THEN Raise("ZeroDivisionError") ELSE ReturnFloat(FDiv(a, b))

\* b == 0: exact comparison with the integer zero; true of 0.0 and of -0.0.
PyEqZero(b) == IsZero(b)

\* pow() is evaluated on enclosures [lo, hi] in fixed point, Fx units to 1.0.
Fx == Pow2(10)

\* Every value from FxCap up rounds to infinity.
FxCap == Pow2(MaxExp) * Fx

Clamp(v) == IF v > FxCap THEN FxCap ELSE v

CeilDiv(n, d) == (n + d - 1) \div d

RECURSIVE ISqrtBit(_, _, _)
ISqrtBit(v, bit, acc) ==
    IF bit = 0 THEN acc
    ELSE ISqrtBit(v, bit \div 2,
                  IF (acc + bit) * (acc + bit) <= v THEN acc + bit ELSE acc)

ISqrtFloor(v) == ISqrtBit(v, Pow2(14), 0)
ISqrtCeil(v) == LET r == ISqrtFloor(v) IN IF r * r = v THEN r ELSE r + 1

\* [lo, hi] times the rational num/den.
EncTimesRat(enc, num, den) ==
    [lo |-> Clamp((enc.lo * num) \div den), hi |-> Clamp(CeilDiv(enc.hi * num, den))]

EncTimes(p, q) ==
    [lo |-> Clamp((p.lo * q.lo) \div Fx), hi |-> Clamp(CeilDiv(p.hi * q.hi, Fx))]

EncSqrt(enc) == [lo |-> ISqrtFloor(enc.lo * Fx), hi |-> ISqrtCeil(enc.hi * Fx)]

EncOne == [lo |-> Fx, hi |-> Fx]

\* (num/den)^n for the natural number n, by n multiplications.
RECURSIVE EncPowInt(_, _, _)
EncPowInt(num, den, n) ==
    IF n = 0 THEN EncOne
    ELSE CHOOSE r \in { EncTimesRat(p, num, den) : p \in {EncPowInt(num, den, n - 1)} } : TRUE

\* root^(f / 2^bits), f < 2^bits, by the binary digits of f, the leading
\* digit first: each digit takes one more square root.
RECURSIVE EncPowFrac(_, _, _)
EncPowFrac(root, f, bits) ==
    IF bits = 0 \/ f = 0 THEN EncOne
    ELSE CHOOSE r \in
            { IF f >= Pow2(bits - 1)
              THEN EncTimes(half, EncPowFrac(half, f - Pow2(bits - 1), bits - 1))
              ELSE EncPowFrac(half, f, bits - 1) : half \in {EncSqrt(root)} } : TRUE

\* x^y for finite x > 0 and finite y # 0; 1/x is taken exactly for y < 0.
EncPow(x, y) ==
    LET bnum == IF y.neg THEN One ELSE x.mag
        bden == IF y.neg THEN x.mag ELSE One
    IN  EncTimes(EncPowInt(bnum, bden, y.mag \div One),
                 EncPowFrac([lo |-> (bnum * Fx) \div bden,
                             hi |-> CeilDiv(bnum * Fx, bden)],
                            y.mag % One, MantBits))

\* The platform's pow(x, y): the nearest float, or either neighbour where
\* the result is too close to a rounding boundary to tell.
LibmPow(x, y, dir) ==
    LET enc == EncPow(x, y)
    IN  FRound(FALSE, (IF dir = "down" THEN enc.lo ELSE enc.hi) * One, Fx)

IsInteger(w) == w.cls = "fin" /\ w.mag % One = 0
IsOddInteger(w) == IsInteger(w) /\ (w.mag \div One) % 2 = 1

FOne == Fin(FALSE, One)
FAbs(x) == [x EXCEPT !.neg = FALSE]

\* base ** exponent
PyPow(iv, iw, dir) ==
    IF IsZero(iw) THEN ReturnFloat(FOne)
    ELSE IF iv.cls = "nan" THEN ReturnFloat(iv)
    ELSE IF iw.cls = "nan" THEN ReturnFloat(IF iv = FOne THEN FOne ELSE iw)
    ELSE IF iw.cls = "inf" THEN
        IF FAbs(iv) = FOne THEN ReturnFloat(FOne)
        ELSE IF (~iw.neg) = (iv.cls = "inf" \/ iv.mag > One) THEN ReturnFloat(Inf(FALSE))
        ELSE ReturnFloat(Fin(FALSE, 0))
    ELSE IF iv.cls = "inf" THEN
        IF ~iw.neg THEN ReturnFloat(IF IsOddInteger(iw) THEN iv ELSE FAbs(iv))
        ELSE ReturnFloat(Fin(IsOddInteger(iw) /\ iv.neg, 0))
    ELSE IF IsZero(iv) THEN
        IF iw.neg THEN Raise("ZeroDivisionError")
        ELSE ReturnFloat(IF IsOddInteger(iw) THEN iv ELSE Fin(FALSE, 0))
    ELSE IF iv.neg /\ ~IsInteger(iw) THEN ReturnComplex
    ELSE LET negate == iv.neg /\ IsOddInteger(iw)
         IN  IF iv.mag = One THEN ReturnFloat(Fin(negate, One))
             ELSE LET ix == LibmPow(FAbs(iv), iw, dir)
                  IN  IF ix.cls = "inf" THEN Raise("OverflowError")
                      ELSE ReturnFloat([ix EXCEPT !.neg = negate])

----------------------------------------------------------------------------
(* The functions of server.py.                                             *)

\* The template of lines 22-49, cut at its two {expression} fields.
PromptHead ==
    "You are a BODMAS calculation assistant with access to mathematical operation tools.\n" \o
    "\n" \o
    "**Expression to evaluate:** "

\* lines 24-34: the rest of the expression line, the task and the BODMAS rules
PromptRules ==
    "\n" \o
    "\n" \o
    "**Your task:**\n" \o
    "1. First, check the bodmas_chart.jpg resource to understand the order of operations\n" \o
    "2. Break down the expression according to BODMAS rules:\n" \o
    "   - B: Brackets (Parentheses) first\n" \o
    "   - O: Orders (Exponents/Powers) \n" \o
    "   - D: Division and M: Multiplication (left to right)\n" \o
    "   - A: Addition and S: Subtraction (left to right)\n" \o
    "\n" \o
    "3. Use the available tools to calculate step by step:\n"

\* The tool list with one tool left out.
PromptToolList_without_power ==
    "   - add(a, b) - for addition\n" \o
    "   - subtract(a, b) - for subtraction  \n" \o
    "   - multiply(a, b) - for multiplication\n" \o
    "   - divide(a, b) - for division\n"

\* lines 35-39: the five tools
PromptToolList ==
    "   - add(a, b) - for addition\n" \o
    "   - subtract(a, b) - for subtraction  \n" \o
    "   - multiply(a, b) - for multiplication\n" \o
    "   - divide(a, b) - for division\n" \o
    "   - power(base, exponent) - for exponents\n"

\* lines 40-47: the steps, up to the second field
PromptSteps ==
    "\n" \o
    "4. Show each step clearly:\n" \o
    "   - Identify which operation to perform first according to BODMAS\n" \o
    "   - Call the appropriate tool with the correct arguments\n" \o
    "   - Use the result in the next step\n" \o
    "   - Continue until you reach the final answer\n" \o
    "\n" \o
    "Please evaluate: "

PromptMiddle == PromptRules \o PromptToolList \o PromptSteps

PromptTail ==
    "\n" \o
    "\n" \o
    "Remember to always follow BODMAS order and use the tools for each calculation step."

\* The markdown of lines 86-98; its square-root sign (U+221A), which a TLA+
\* string cannot hold, is spelled \u221a.
GuideText ==
    "# BODMAS Quick Reference\n" \o
    "\n" \o
    "## Order of Operations:\n" \o
    "1. **B**rackets (Parentheses) - ( ), [ ], { }\n" \o
    "2. **O**rders (Powers/Exponents) - ^, ², ³, \\u221a\n" \o
    "3. **D**ivision ÷ / and **M**ultiplication × * (left to right)\n" \o
    "4. **A**ddition + and **S**ubtraction - (left to right)\n" \o
    "\n" \o
    "## Remember:\n" \o
    "- Always work from left to right within the same priority level\n" \o
    "- Complete innermost brackets first\n" \o
    "- See bodmas_chart.jpg for visual reference\n"

\* The expression interpolated at the first field only.
prompt_once(expression) ==
    ReturnStr(PromptHead \o expression \o PromptMiddle \o PromptTail)

\* @mcp.prompt(): an f-string; a str field is interpolated as it is.
bodmas_calculation_prompt(expression) ==
    ReturnStr(PromptHead \o expression \o PromptMiddle \o expression \o PromptTail)

\* The backing file: missing, present but not readable, or readable bytes.
Missing == [state |-> "missing", data |-> <<>>]
Denied == [state |-> "denied", data |-> <<>>]
Readable(bs) == [state |-> "readable", data |-> bs]

\* open(image_path, "rb") and f.read()
PyOpenRead(f) ==
    IF f.state = "missing" THEN Raise("FileNotFoundError")
    ELSE IF f.state = "denied" THEN Raise("PermissionError")
    ELSE ReturnBytes(f.data)

WarningLine == "Warning: bodmas_chart.jpg not found"
ErrorLine(exc) == "Error loading image: " \o exc

\* The handler without its catch-all clause: only a missing file is caught.
image_only_not_found ==
    LET got == PyOpenRead(file)
    IN  IF got.status = "ok" THEN [ret |-> got, out |-> <<>>]
        ELSE IF got.error = "FileNotFoundError"
             THEN [ret |-> ReturnBytes(<<>>), out |-> <<WarningLine>>]
        ELSE [ret |-> got, out |-> <<>>]

\* @mcp.resource(uri="file://resources/bodmas_chart.jpg"): the value
\* returned and the lines printed on the way.
bodmas_chart_image ==
    LET got == PyOpenRead(file)
    IN  IF got.status = "ok" THEN [ret |-> got, out |-> <<>>]
        ELSE IF got.error = "FileNotFoundError"
             THEN [ret |-> ReturnBytes(<<>>), out |-> <<WarningLine>>]
        ELSE [ret |-> ReturnBytes(<<>>), out |-> <<ErrorLine(got.error)>>]

\* The guide read from beside the image instead of embedded.
guide_from_file ==
    IF file.state = "readable" THEN ReturnStr(GuideText) ELSE ReturnStr("")

\* @mcp.resource(uri="file://resources/bodmas_guide.md")
bodmas_guide == ReturnStr(GuideText)

\* add keeping a running total: the sum is added onto the last result.
add_onto_last(a, b) == ReturnFloat(FAdd(FAdd(a, b), response.num))

\* @mcp.tool()
add(a, b) == PyAdd(a, b)

\* subtract with its operands the wrong way round.
subtract_reversed(a, b) == PySub(b, a)

\* @mcp.tool()
subtract(a, b) == PySub(a, b)

\* @mcp.tool()
multiply(a, b) == PyMul(a, b)

\* divide without its guard.
divide_unguarded(a, b) == PyTrueDiv(a, b)

\* @mcp.tool()
divide(a, b) ==
    IF PyEqZero(b) THEN Raise("ValueError") ELSE PyTrueDiv(a, b)

\* power with base and exponent the wrong way round.
power_swapped(base, exponent) == PyPow(exponent, base, libm)

\* @mcp.tool()
power(base, exponent) == PyPow(base, exponent, libm)

----------------------------------------------------------------------------
(* The registry: what the decorators register on `mcp`, and the lookup by  *)
(* name that answers a request.                                            *)

ImageUri == "file://resources/bodmas_chart.jpg"
GuideUri == "file://resources/bodmas_guide.md"
PromptName == "bodmas_calculation_prompt"

\* Two decorators on each other's function.
ToolsSwapped ==
    { <<"add", "subtract">>, <<"subtract", "add">>, <<"multiply", "multiply">>,
      <<"divide", "divide">>, <<"power", "power">> }

\* <<registered name, function>>: a tool and a prompt go by the name of
\* their function, a resource by its uri.
Tools ==
    { <<"add", "add">>, <<"subtract", "subtract">>, <<"multiply", "multiply">>,
      <<"divide", "divide">>, <<"power", "power">> }

Resources ==
    { <<ImageUri, "bodmas_chart_image">>, <<GuideUri, "bodmas_guide">> }

Prompts == { <<PromptName, "bodmas_calculation_prompt">> }

Registry(kind) ==
    IF kind = "tool" THEN Tools
    ELSE IF kind = "resource" THEN Resources
    ELSE Prompts

Lookup(kind, name) == { e[2] : e \in { r \in Registry(kind) : r[1] = name } }

\* Running one registered function on the request's arguments.
Invoke(fn, a, b, expression) ==
    IF fn = "add" THEN [ret |-> add(a, b), out |-> <<>>]
    ELSE IF fn = "subtract" THEN [ret |-> subtract(a, b), out |-> <<>>]
    ELSE IF fn = "multiply" THEN [ret |-> multiply(a, b), out |-> <<>>]
    ELSE IF fn = "divide" THEN [ret |-> divide(a, b), out |-> <<>>]
    ELSE IF fn = "power" THEN [ret |-> power(a, b), out |-> <<>>]
    ELSE IF fn = "bodmas_calculation_prompt"
         THEN [ret |-> bodmas_calculation_prompt(expression), out |-> <<>>]
    ELSE IF fn = "bodmas_chart_image" THEN bodmas_chart_image
    ELSE [ret |-> bodmas_guide, out |-> <<>>]

Request(kind, name, a, b, expression) ==
    [kind |-> kind, name |-> name, a |-> a, b |-> b, expression |-> expression]

NoRequest == Request("none", "", NoFloat, NoFloat, "")
NoResponse ==
    [status |-> "none", error |-> "", type |-> "none",
     num |-> NoFloat, text |-> "", bytes |-> <<>>]
NoMemo == [set |-> FALSE, fresh |-> FALSE, request |-> NoRequest, response |-> NoResponse]

\* Bounds of the model.
MaxLog == 1
MaxBytes == 1
MaxTokens == 3

\* The lookup by name and the run of the function found: what is handed
\* back, what is printed, and which function ran.
Answer(kind, name, a, b, expression) ==
    LET impls == Lookup(kind, name)
    IN  IF impls = {}
        THEN [ret |-> Raise("NotFound"), out |-> <<>>, fn |-> ""]
        ELSE LET fn == CHOOSE f \in impls : TRUE
                 ran == Invoke(fn, a, b, expression)
             IN  [ret |-> ran.ret, out |-> ran.out, fn |-> fn]

\* One request, answered to completion.
Serve(kind, name, a, b, expression) ==
    \E ans \in { Answer(kind, name, a, b, expression) } :
        /\ Len(stdout) + Len(ans.out) <= MaxLog
        /\ request' = Request(kind, name, a, b, expression)
        /\ response' = ans.ret
        /\ invoked' = ans.fn
        /\ stdout' = stdout \o ans.out
        /\ UNCHANGED <<file, libm>>

\* The observer keeps the call just answered, or goes on holding the one
\* it kept before.
Remember ==
    \/ memo' = [set |-> TRUE, fresh |-> TRUE, request |-> request', response |-> response']
    \/ memo' = [memo EXCEPT !.fresh = FALSE]

Forget == memo' = [memo EXCEPT !.fresh = FALSE]

----------------------------------------------------------------------------
(* The server: any caller, any request, in any order; the file comes and   *)
(* goes under the server's feet.                                           *)

Operands == { FromInt(0), FromInt(2) }

Bytes == { 255 }

RECURSIVE SeqsUpTo(_, _)
SeqsUpTo(S, n) ==
    IF n = 0 THEN { <<>> }
    ELSE LET shorter == SeqsUpTo(S, n - 1)
         IN  shorter \cup { Append(q, x) : q \in shorter, x \in S }

ByteStrings == SeqsUpTo(Bytes, MaxBytes)

ServerExpressions == { "2 + 3 * 4", "" }

\* Names a caller may ask for that one registry or another does not hold.
Names == { "modulo", "add" }

Init ==
    /\ request = NoRequest
    /\ response = NoResponse
    /\ invoked = ""
    /\ file \in { Missing, Denied } \cup { Readable(bs) : bs \in ByteStrings }
    /\ stdout = <<>>
    /\ memo = NoMemo
    /\ libm \in { "down", "up" }

CallAdd == \E a, b \in Operands : Serve("tool", "add", a, b, "") /\ Remember
CallSubtract == \E a, b \in Operands : Serve("tool", "subtract", a, b, "") /\ Remember
CallMultiply == \E a, b \in Operands : Serve("tool", "multiply", a, b, "") /\ Remember
CallDivide == \E a, b \in Operands : Serve("tool", "divide", a, b, "") /\ Remember
CallPower == \E a, b \in Operands : Serve("tool", "power", a, b, "") /\ Remember

GetPrompt ==
    \E e \in ServerExpressions :
        Serve("prompt", PromptName, NoFloat, NoFloat, e) /\ Remember

ReadImage == Serve("resource", ImageUri, NoFloat, NoFloat, "") /\ Forget
ReadGuide == Serve("resource", GuideUri, NoFloat, NoFloat, "") /\ Forget

RequestUnknown ==
    \E kind \in { "tool", "resource", "prompt" }, name \in Names :
        /\ Lookup(kind, name) = {}
        /\ Serve(kind, name, NoFloat, NoFloat, "")
        /\ IF kind = "resource" THEN Forget ELSE Remember

WriteFile ==
    \E bs \in ByteStrings :
        /\ file' = Readable(bs)
        /\ UNCHANGED <<request, response, invoked, stdout, memo, libm>>

RemoveFile ==
    /\ file' = Missing
    /\ UNCHANGED <<request, response, invoked, stdout, memo, libm>>

DenyFile ==
    /\ file' = Denied
    /\ UNCHANGED <<request, response, invoked, stdout, memo, libm>>

Next ==
    \/ CallAdd \/ CallSubtract \/ CallMultiply \/ CallDivide \/ CallPower
    \/ GetPrompt \/ ReadImage \/ ReadGuide \/ RequestUnknown
    \/ WriteFile \/ RemoveFile \/ DenyFile

Spec == Init /\ [][Next]_vars

----------------------------------------------------------------------------
(* The arithmetic tools as functions: every pair of floats, each tool      *)
(* applied once.                                                           *)

InitArith ==
    /\ request \in { Request("input", "", a, b, "") : a \in Floats, b \in Floats }
    /\ response = NoResponse
    /\ invoked = ""
    /\ file = Missing
    /\ stdout = <<>>
    /\ memo = NoMemo
    /\ libm \in { "down", "up" }

ApplyAdd ==
    /\ request.kind = "input"
    /\ Serve("tool", "add", request.a, request.b, "")
    /\ UNCHANGED memo

ApplySubtract ==
    /\ request.kind = "input"
    /\ Serve("tool", "subtract", request.a, request.b, "")
    /\ UNCHANGED memo

ApplyMultiply ==
    /\ request.kind = "input"
    /\ Serve("tool", "multiply", request.a, request.b, "")
    /\ UNCHANGED memo

ApplyDivide ==
    /\ request.kind = "input"
    /\ Serve("tool", "divide", request.a, request.b, "")
    /\ UNCHANGED memo

ApplyPower ==
    /\ request.kind = "input"
    /\ Serve("tool", "power", request.a, request.b, "")
    /\ UNCHANGED memo

NextArith == ApplyAdd \/ ApplySubtract \/ ApplyMultiply \/ ApplyDivide \/ ApplyPower

SpecArith == InitArith /\ [][NextArith]_vars

----------------------------------------------------------------------------
(* The prompt generator as a function: every expression built of at most   *)
(* MaxTokens tokens.                                                       *)

Tokens == { "2", " + ", "3 * 4", "add(" }

RECURSIVE Join(_)
Join(q) == IF q = <<>> THEN "" ELSE Head(q) \o Join(Tail(q))

Expressions == { Join(q) : q \in SeqsUpTo(Tokens, MaxTokens) }

InitPrompt ==
    /\ request \in { Request("input", "", NoFloat, NoFloat, e) : e \in Expressions }
    /\ response = NoResponse
    /\ invoked = ""
    /\ file = Missing
    /\ stdout = <<>>
    /\ memo = NoMemo
    /\ libm = "down"

ApplyPrompt ==
    /\ request.kind = "input"
    /\ Serve("prompt", PromptName, NoFloat, NoFloat, request.expression)
    /\ UNCHANGED memo

NextPrompt == ApplyPrompt

SpecPrompt == InitPrompt /\ [][NextPrompt]_vars

----------------------------------------------------------------------------
(* Properties.                                                             *)

IsCall(kind, name) == request.kind = kind /\ request.name = name

Abs(n) == IF n < 0 THEN -n ELSE n

\* r is a float nearest to n/d quanta: no magnitude of the format is nearer.
IsNearest(r, n, d) ==
    r.cls = "fin" => \A m \in Mags : Abs(r.mag * d - n) <= Abs(m * d - n)

\* The number of places at which sub occurs in s.
Count(sub, s) ==
    Cardinality({ i \in 1 .. (Len(s) - Len(sub) + 1) :
                    SubSeq(s, i, i + Len(sub) - 1) = sub })

\* C1: divide(a, b) returns the quotient a / b for every a and every b that
\* is not zero (the float nearest to the exact quotient when both are
\* finite); divide(a, b) with b equal to zero, of either sign and whatever a
\* is, raises the ValueError of line 161 and returns no number.  Nothing
\* but a zero fails, the smallest subnormal included.
C1_DivideContract ==
    IsCall("tool", "divide") =>
        IF request.b.cls = "fin" /\ request.b.mag = 0
        THEN /\ response.status = "error"
             /\ response.error = "ValueError"
             /\ response.type = "none"
        ELSE /\ response.status = "ok"
             /\ response.type = "float"
             /\ response.num = FDiv(request.a, request.b)
             /\ (request.a.cls = "fin" /\ request.b.cls = "fin") =>
                    /\ IsNearest(response.num, request.a.mag * One, request.b.mag)
                    /\ response.num.neg = (request.a.neg # request.b.neg)

C1_Witness ==
    /\ IsCall("tool", "divide")
    /\ request.a = Inf(FALSE)
    /\ request.b = Fin(TRUE, 0)
    /\ response.status = "error"

\* C2: for all finite a and b, add returns a + b, subtract returns a - b (the
\* first minus the second) and multiply returns a * b, each the float
\* nearest to the exact result or an infinity on overflow, and none of the
\* three raises.
C2_AddSubtractMultiply ==
    (request.kind = "tool" /\ IsFinite(request.a) /\ IsFinite(request.b)) =>
        LET sa == Signed(request.a)
            sb == Signed(request.b)
            r == response.num
        IN  /\ IsCall("tool", "add") =>
                /\ response = ReturnFloat(FAdd(request.a, request.b))
                /\ IsNearest(r, Abs(sa + sb), 1)
                /\ (sa + sb # 0) => r.neg = (sa + sb < 0)
            /\ IsCall("tool", "subtract") =>
                /\ response = ReturnFloat(FSub(request.a, request.b))
                /\ IsNearest(r, Abs(sa - sb), 1)
                /\ (sa - sb # 0) => r.neg = (sa - sb < 0)
            /\ IsCall("tool", "multiply") =>
                /\ response = ReturnFloat(FMul(request.a, request.b))
                /\ IsNearest(r, Abs(sa * sb), One)
                /\ r.neg = (request.a.neg # request.b.neg)

C2_Witness ==
    /\ IsCall("tool", "subtract")
    /\ request.a = FromInt(1)
    /\ request.b = FromInt(3)
    /\ response = ReturnFloat(FromInt(-2))

\* C3 as the spec states it: for "2 + 3 * 4" each of the five tool names
\* occurs in the prompt exactly once.
C3_EachNameOnce ==
    (IsCall("prompt", PromptName) /\ request.expression = "2 + 3 * 4") =>
        \A n \in { "add", "subtract", "multiply", "divide", "power" } :
            Count(n, response.text) = 1

\* C3, amended: for "2 + 3 * 4" each of the five tool names occurs in the
\* prompt exactly once as a call signature (the name followed by an opening
\* parenthesis); as bare substrings "multiply", "divide" and "power" occur
\* once, "add" and "subtract" twice ("addition", "subtraction").
C3_NameCounts ==
    (IsCall("prompt", PromptName) /\ request.expression = "2 + 3 * 4") =>
        /\ \A n \in { "add", "subtract", "multiply", "divide", "power" } :
               Count(n \o "(", response.text) = 1
        /\ \A n \in { "multiply", "divide", "power" } : Count(n, response.text) = 1
        /\ \A n \in { "add", "subtract" } : Count(n, response.text) = 2
        /\ Count("addition", response.text) = 1
        /\ Count("subtraction", response.text) = 1

C3_Witness ==
    /\ IsCall("prompt", PromptName)
    /\ request.expression = "2 + 3 * 4"
    /\ response.status = "ok"
    /\ Count("add", response.text) = 2

\* C4: whatever the expression, the prompt generator raises nothing and
\* returns the fixed template with the expression, unchanged, at its two
\* fields and nowhere else in the template's own text; for "2 + 3 * 4" the
\* expression occurs in the output exactly twice.
C4_PromptVerbatim ==
    IsCall("prompt", PromptName) =>
        LET e == request.expression
            t == response.text
            h == Len(PromptHead)
            m == Len(PromptMiddle)
            n == Len(e)
        IN  /\ response.status = "ok"
            /\ response.type = "str"
            /\ Len(t) = h + m + Len(PromptTail) + 2 * n
            /\ SubSeq(t, 1, h) = PromptHead
            /\ SubSeq(t, h + 1, h + n) = e
            /\ SubSeq(t, h + n + 1, h + n + m) = PromptMiddle
            /\ SubSeq(t, h + n + m + 1, h + n + m + n) = e
            /\ SubSeq(t, h + n + m + n + 1, Len(t)) = PromptTail
            /\ (e = "2 + 3 * 4") => Count(e, t) = 2

C4_Witness ==
    /\ IsCall("prompt", PromptName)
    /\ request.expression = "add(2 + "
    /\ response.status = "ok"
    /\ Count("add(2 + ", response.text) = 2

\* C5: a read of the image resource never fails the request: it returns the
\* bytes of the file exactly when the file is there and readable, and the
\* empty byte string when it is missing or cannot be read.
C5_ImageRead ==
    [][ (request'.kind = "resource" /\ request'.name = ImageUri /\ file' = file) =>
            /\ response'.status = "ok"
            /\ response'.type = "bytes"
            /\ response'.bytes = IF file.state = "readable" THEN file.data ELSE <<>> ]_vars

C5_Witness ==
    /\ IsCall("resource", ImageUri)
    /\ response = ReturnBytes(<<>>)
    /\ stdout = << ErrorLine("PermissionError") >>
    /\ file = Denied

\* C6: the outcome of a tool call or a prompt request depends on its
\* arguments alone: whatever was called in between, failed calls, resource
\* reads and changes of the file included, a call with the arguments of an
\* earlier call has the outcome of the earlier call.
C6_SameArgumentsSameOutcome ==
    (memo.set /\ request.kind \in { "tool", "prompt" } /\ memo.request = request) =>
        memo.response = response

C6_Witness ==
    /\ memo.set
    /\ ~memo.fresh
    /\ memo.request = request
    /\ IsCall("tool", "divide")
    /\ response.status = "error"
    /\ stdout # <<>>
    /\ file.state = "readable"

\* C7: a request for a registered name runs the function registered under
\* that name, for the five tools, the two resources and the prompt; a
\* request for any other name fails with NotFound and runs nothing.
C7_Dispatch ==
    request.kind \in { "tool", "resource", "prompt" } =>
        IF /\ request.kind = "tool"
           /\ request.name \in { "add", "subtract", "multiply", "divide", "power" }
        THEN /\ invoked = request.name
             /\ response.error # "NotFound"
             /\ IsCall("tool", "add") => response = PyAdd(request.a, request.b)
             /\ IsCall("tool", "subtract") => response = PySub(request.a, request.b)
             /\ IsCall("tool", "multiply") => response = PyMul(request.a, request.b)
             /\ IsCall("tool", "power") => response = PyPow(request.a, request.b, libm)
             /\ IsCall("tool", "divide") =>
                    response \in { Raise("ValueError"), PyTrueDiv(request.a, request.b) }
        ELSE IF IsCall("resource", ImageUri)
        THEN invoked = "bodmas_chart_image" /\ response.type = "bytes"
        ELSE IF IsCall("resource", GuideUri)
        THEN invoked = "bodmas_guide" /\ response.type = "str"
        ELSE IF IsCall("prompt", PromptName)
        THEN invoked = "bodmas_calculation_prompt" /\ response.type = "str"
        ELSE invoked = "" /\ response = Raise("NotFound")

C7_Witness ==
    /\ IsCall("prompt", "add")
    /\ invoked = ""
    /\ response = Raise("NotFound")

\* C8: power(base, 0) is 1 for every base that is not zero, and
\* power(base, 1) is base for every base, the infinities and NaN included.
C8_PowerBoundary ==
    IsCall("tool", "power") =>
        /\ (IsZero(request.b) /\ ~IsZero(request.a)) => response = ReturnFloat(FromInt(1))
        /\ (request.b = FromInt(1)) => response = ReturnFloat(request.a)

C8_Witness ==
    /\ IsCall("tool", "power")
    /\ request.a = Fin(TRUE, One + 2)
    /\ request.b = FromInt(1)
    /\ response = ReturnFloat(request.a)

\* C9: every read of the guide resource, wherever it falls among the other
\* calls and whatever the state of the image file, returns the one fixed,
\* non-empty markdown text and does not fail.
C9_GuideFixed ==
    IsCall("resource", GuideUri) =>
        /\ response.status = "ok"
        /\ response.type = "str"
        /\ response.text = GuideText
        /\ Len(response.text) > 0
        /\ SubSeq(response.text, 1, 24) = "# BODMAS Quick Reference"

C9_Witness ==
    /\ IsCall("resource", GuideUri)
    /\ response.status = "ok"
    /\ file = Missing
    /\ stdout = << WarningLine >>

====
